---- MODULE Spec2Model ----
(***************************************************************************)
(* Model of the Express + MongoDB demo backend: the Users API and the Bank *)
(* API (balance, deposit, withdraw, transactions).  Every route handler is *)
(* an async function; each `await` on a store operation is a suspension    *)
(* point, so a handler is one action per store round trip and the requests *)
(* of different clients interleave at those points.                        *)
(***************************************************************************)
EXTENDS Integers, Sequences, FiniteSets, TLC

\* ------------------------------------------------------------------ bounds
\* Largest finite amount a client sends.
MaxAmount == 1
\* Transaction documents constructed over a run (ids and dates are drawn
\* from one counter, so this also bounds the counter).
MaxTx == 3
\* User documents constructed over a run.
MaxUsers == 2

\* Requests that can be in flight at the same time (one slot per client).
Procs == {"r1", "r2"}

\* ------------------------------------------------- JavaScript values
\* A JSON body field after express.json(): a number (JSON.parse yields
\* Infinity for a literal such as 1e999 and -Infinity for -1e999), a value
\* of another type (a string), or a missing field (undefined).  NaN is a
\* JavaScript number too; arithmetic produces it (Infinity - Infinity).
Num(n) == [t |-> "num", v |-> n]
Inf == [t |-> "inf", v |-> 0]
NInf == [t |-> "ninf", v |-> 0]
NaN == [t |-> "nan", v |-> 0]
Str == [t |-> "str", v |-> 0]
Undef == [t |-> "undef", v |-> 0]
Null == [t |-> "null", v |-> 0]

\* typeof x === "number"
IsNumber(x) == x.t \in {"num", "inf", "ninf", "nan"}

\* Number.isFinite(x)
IsFinite(x) == x.t = "num"

\* a > b on JavaScript numbers (false whenever a NaN is involved)
Gt(a, b) ==
  CASE a.t = "nan" \/ b.t = "nan" -> FALSE
    [] a.t = "inf" -> b.t # "inf"
    [] a.t = "ninf" -> FALSE
    [] OTHER -> \/ b.t = "ninf"
                \/ b.t = "num" /\ a.v > b.v

\* a <= b on JavaScript numbers (false whenever a NaN is involved)
Le(a, b) ==
  CASE a.t = "nan" \/ b.t = "nan" -> FALSE
    [] OTHER -> ~Gt(a, b)

\* a + b on JavaScript numbers (IEEE 754 special values kept)
Add(a, b) ==
  CASE a.t = "nan" \/ b.t = "nan" -> NaN
    [] a.t = "inf" -> IF b.t = "ninf" THEN NaN ELSE Inf
    [] a.t = "ninf" -> IF b.t = "inf" THEN NaN ELSE NInf
    [] b.t = "inf" -> Inf
    [] b.t = "ninf" -> NInf
    [] OTHER -> Num(a.v + b.v)

\* { $multiply: ["$amount", -1] }
Neg(a) ==
  CASE a.t = "inf" -> NInf
    [] a.t = "ninf" -> Inf
    [] a.t = "nan" -> NaN
    [] OTHER -> Num(0 - a.v)

\* a - b
Sub(a, b) == Add(a, Neg(b))

\* x || 0 : a falsy x (undefined, 0, NaN) gives 0
OrZero(x) ==
  IF x.t \in {"undef", "nan", "null"} \/ (x.t = "num" /\ x.v = 0)
  THEN Num(0)
  ELSE x

\* JSON.stringify of a number inside res.json: a non-finite number is
\* written as null.
JsonNumber(x) == IF IsFinite(x) THEN x ELSE Null

\* The values of req.body.amount a client can send.
BodyAmounts ==
  {Num(n) : n \in (0 - 1)..MaxAmount} \cup {Inf, NInf, Str, Undef}

\* ------------------------------------------------------- the store
VARIABLES
  txs,      \* the transactions collection: a set of Transaction documents
  users,    \* the users collection: a set of User documents
  clock,    \* Transaction documents constructed so far (source of _id, Date.now)
  uclock,   \* User documents constructed so far (source of _id)
  pc,       \* per request slot: the await the handler is suspended at
  req,      \* per request slot: the request in flight (route and inputs)
  loc,      \* per request slot: the handler's local variables
  done,     \* the request the last step completed, with its response (if any)
  quiet,    \* history: what has happened since the last completed clear
  sub,      \* history, per slot: what the slot's request was issued after
  deleted,  \* history: ids of the users a DELETE /users/:id has removed
  admit,    \* history: per withdrawal document, the balance it was admitted against
  seen      \* history, per slot: the balances the store has had since the slot's GET /balance began

store == <<txs, users, clock, uclock>>
slots == <<pc, req, loc>>
hist == <<quiet, sub, deleted, admit, seen>>
vars == <<txs, users, clock, uclock, pc, req, loc, done, quiet, sub, deleted, admit, seen>>

\* new Transaction({ type, amount }): _id and date are set at construction.
NewTransaction(type, amount, n) ==
  [id |-> n, type |-> type, amount |-> amount, date |-> n]

\* $sum over the documents of a group: `terms` holds one <<_id, value>> pair
\* per document.
RECURSIVE Sum(_)
Sum(terms) ==
  IF terms = {}
  THEN Num(0)
  ELSE LET d == CHOOSE x \in terms : TRUE
       IN Add(d[2], Sum(terms \ {d}))

\* Transaction.aggregate([{ $match: { type } },
\*                        { $group: { _id: null, total: { $sum: "$amount" } } }])
\* No matching document gives no group at all.
AggregateTotal(coll, type) ==
  LET matched == {d \in coll : d.type = type}
  IN IF matched = {}
     THEN <<>>
     ELSE <<[total |-> Sum({<<d.id, d.amount>> : d \in matched})]>>

\* Mutant of AggregateBalance: the $cond is dropped, so withdrawals are added
\* instead of subtracted.
AggregateBalanceUnsigned(coll) ==
  IF coll = {}
  THEN <<>>
  ELSE <<[balance |-> Sum({<<d.id, d.amount>> : d \in coll})]>>

\* Transaction.aggregate([{ $group: { _id: null, balance: { $sum: { $cond:
\*   [{ $eq: ["$type", "deposit"] }, "$amount", { $multiply: ["$amount", -1] }] } } } }])
AggregateBalance(coll) ==
  LET signed(d) == IF d.type = "deposit" THEN d.amount ELSE Neg(d.amount)
  IN IF coll = {}
     THEN <<>>
     ELSE <<[balance |-> Sum({<<d.id, signed(d)>> : d \in coll})]>>

\* deposits[0]?.total || 0
FirstTotal(groups) == OrZero(IF groups = <<>> THEN Undef ELSE groups[1].total)

\* currentBalance[0]?.balance || 0
FirstBalance(groups) == OrZero(IF groups = <<>> THEN Undef ELSE groups[1].balance)

\* The balance of a set of transactions as the specification defines it: the
\* sum of the deposit amounts minus the sum of the withdrawal amounts.
Ledger(coll) ==
  Sub(Sum({<<d.id, d.amount>> : d \in {x \in coll : x.type = "deposit"}}),
      Sum({<<d.id, d.amount>> : d \in {x \in coll : x.type = "withdrawal"}}))

\* Mutant of InvalidAmount: only the type is checked.
InvalidAmountTypeOnly(amount) == ~IsNumber(amount)

\* typeof amount !== "number" || amount <= 0
InvalidAmount(amount) == ~IsNumber(amount) \/ Le(amount, Num(0))

\* amount > balance
Insufficient(amount, balance) == Gt(amount, balance)

\* ------------------------------------------------------ requests
NoDoc == [id |-> 0, type |-> "", amount |-> Undef, date |-> 0]
NoReq == [route |-> "", amount |-> Undef, id |-> 0, name |-> ""]
NoLoc == [balance |-> Undef, totalDeposits |-> Undef, doc |-> NoDoc]

\* req of a route with its inputs (body amount, :id parameter, body name).
Request(route, amount, id, name) ==
  [route |-> route, amount |-> amount, id |-> id, name |-> name]

\* res.status(s).json({ error })
ErrorResponse(s, e) == [status |-> s, error |-> e, message |-> "", data |-> Null]

\* res.json({ message: `<text> $${amount}` })
MessageResponse(text, amount) ==
  [status |-> 200, error |-> "", message |-> text, data |-> amount]

\* res.json(data) / res.status(s).json(data)
DataResponse(s, d) == [status |-> s, error |-> "", message |-> "", data |-> d]

\* A rejected promise inside an async handler: no route catches it, so the
\* request gets no response from the handler.
Fault == [status |-> 0, error |-> "unhandled rejection", message |-> "", data |-> Null]

\* A completed request: the slot that ran it, the request, what it was issued
\* after (history) and the response.
Exchange(p, r, after, response) ==
  [slot |-> p, route |-> r.route, amount |-> r.amount, id |-> r.id,
   after |-> after, response |-> response]

\* No request was completed by the last step.
NoDone == Exchange("", NoReq, "no", ErrorResponse(0, ""))

\* A request arrives and is given the first free slot.
Free(p) == pc[p] = "idle" /\ (p = "r1" \/ pc["r1"] # "idle")

\* The handler of slot p suspends at its next await.
Await(p, at) ==
  /\ pc' = [pc EXCEPT ![p] = at]
  /\ done' = NoDone

\* The handler of slot p responds and returns: the slot is free again.
Respond(p, response) ==
  /\ done' = Exchange(p, req[p], sub[p], response)
  /\ pc' = [pc EXCEPT ![p] = "idle"]
  /\ req' = [req EXCEPT ![p] = NoReq]
  /\ loc' = [loc EXCEPT ![p] = NoLoc]
  /\ sub' = [sub EXCEPT ![p] = "no"]

\* Transaction documents that requests in flight may still construct.
Pending == Cardinality({q \in Procs : pc[q] = "w_agg"})

\* A deposit or withdrawal request is issued: every read request in flight,
\* and the time since the last clear, has now seen a writer.
WriterIssued ==
  /\ quiet' = "no"
  /\ sub' = [q \in Procs |-> "no"]
  /\ UNCHANGED <<deleted, admit, seen>>

\* A read request is issued: it is subsequent to the last completed clear
\* exactly as far as `quiet` says.
ReaderIssued(p) ==
  /\ sub' = [sub EXCEPT ![p] = quiet]
  /\ UNCHANGED <<quiet, deleted, admit>>

\* A request on one user id is issued: it is later than a successful delete
\* of that id exactly when the id is already in `deleted`.
UserIssued(p, id) ==
  /\ sub' = [sub EXCEPT ![p] = IF id \in deleted THEN "gone" ELSE "no"]
  /\ UNCHANGED <<quiet, deleted, admit, seen>>

\* The collection has changed: every GET /balance in flight has now been
\* concurrent with a store of this balance.
Observed ==
  seen' = [q \in Procs |->
             IF pc[q] \in {"b_dep", "b_wd"} THEN seen[q] \cup {Ledger(txs')} ELSE seen[q]]

\* ------------------------------------------------- POST /deposit
\* Lines 213-222: validate, construct the document, issue save().
DepositStart(p, amount) ==
  /\ Free(p)
  /\ WriterIssued
  /\ IF InvalidAmount(amount)
     THEN /\ done' = Exchange(p, Request("POST /deposit", amount, 0, ""), "no",
                               ErrorResponse(400, "Invalid deposit amount"))
          /\ UNCHANGED <<store, slots>>
     ELSE /\ clock + Pending < MaxTx
          /\ clock' = clock + 1
          /\ req' = [req EXCEPT ![p] = Request("POST /deposit", amount, 0, "")]
          /\ loc' = [loc EXCEPT ![p] =
                      [NoLoc EXCEPT !.doc = NewTransaction("deposit", amount, clock + 1)]]
          /\ Await(p, "d_save")
          /\ UNCHANGED <<txs, users, uclock>>

\* Lines 222-224: the insert reaches the store; the handler responds.
DepositSave(p) ==
  /\ pc[p] = "d_save"
  /\ txs' = txs \cup {loc[p].doc}
  /\ Respond(p, MessageResponse("Deposited", req[p].amount))
  /\ UNCHANGED <<users, clock, uclock, quiet, deleted, admit>>
  /\ Observed

\* ------------------------------------------------ POST /withdraw
\* Lines 234-242: validate, issue the balance aggregation.
WithdrawStart(p, amount) ==
  /\ Free(p)
  /\ WriterIssued
  /\ IF InvalidAmount(amount)
     THEN /\ done' = Exchange(p, Request("POST /withdraw", amount, 0, ""), "no",
                               ErrorResponse(400, "Invalid withdrawal amount"))
          /\ UNCHANGED <<store, slots>>
     ELSE /\ clock + Pending < MaxTx
          /\ req' = [req EXCEPT ![p] = Request("POST /withdraw", amount, 0, "")]
          /\ Await(p, "w_agg")
          /\ UNCHANGED <<store, loc>>

\* Lines 242-269: the aggregation reads the collection; the handler takes the
\* balance, rejects or constructs the document and issues save().
WithdrawRead(p) ==
  /\ pc[p] = "w_agg"
  /\ LET balance == FirstBalance(AggregateBalance(txs))
     IN IF Insufficient(req[p].amount, balance)
        THEN /\ Respond(p, ErrorResponse(400, "Insufficient funds"))
             /\ UNCHANGED <<clock, admit>>
        ELSE /\ clock' = clock + 1
             /\ loc' = [loc EXCEPT ![p] =
                         [NoLoc EXCEPT !.balance = balance,
                                       !.doc = NewTransaction("withdrawal", req[p].amount, clock + 1)]]
             /\ admit' = admit \cup {[id |-> clock + 1, balance |-> balance]}
             /\ Await(p, "w_save")
             /\ UNCHANGED <<req, sub>>
  /\ UNCHANGED <<txs, users, uclock, quiet, deleted, seen>>

\* Mutant of WithdrawSave: the insert is conditional on the balance the
\* collection has when it arrives (check and insert made one operation).
WithdrawSaveChecked(p) ==
  /\ pc[p] = "w_save"
  /\ IF Insufficient(req[p].amount, FirstBalance(AggregateBalance(txs)))
     THEN /\ Respond(p, ErrorResponse(400, "Insufficient funds"))
          /\ UNCHANGED txs
     ELSE /\ txs' = txs \cup {loc[p].doc}
          /\ Respond(p, MessageResponse("Withdrew", req[p].amount))
  /\ UNCHANGED <<users, clock, uclock, quiet, deleted, admit>>
  /\ Observed

\* Lines 269-271: the insert reaches the store; the handler responds.
WithdrawSave(p) ==
  /\ pc[p] = "w_save"
  /\ txs' = txs \cup {loc[p].doc}
  /\ Respond(p, MessageResponse("Withdrew", req[p].amount))
  /\ UNCHANGED <<users, clock, uclock, quiet, deleted, admit>>
  /\ Observed

\* -------------------------------------------------- GET /balance
\* Line 185: issue the deposits aggregation.
BalanceStart(p) ==
  /\ Free(p)
  /\ ReaderIssued(p)
  /\ req' = [req EXCEPT ![p] = Request("GET /balance", Undef, 0, "")]
  /\ Await(p, "b_dep")
  /\ seen' = [seen EXCEPT ![p] = {Ledger(txs)}]
  /\ UNCHANGED <<store, loc>>

\* Lines 185-191: the deposits aggregation reads the collection; the handler
\* issues the withdrawals aggregation.
BalanceDeposits(p) ==
  /\ pc[p] = "b_dep"
  /\ loc' = [loc EXCEPT ![p].totalDeposits = FirstTotal(AggregateTotal(txs, "deposit"))]
  /\ Await(p, "b_wd")
  /\ UNCHANGED <<store, req, hist>>

\* Lines 191-203: the withdrawals aggregation reads the collection; the
\* handler subtracts and responds.
BalanceWithdrawals(p) ==
  /\ pc[p] = "b_wd"
  /\ LET totalWithdrawals == FirstTotal(AggregateTotal(txs, "withdrawal"))
         balance == Sub(loc[p].totalDeposits, totalWithdrawals)
     IN Respond(p, DataResponse(200, JsonNumber(balance)))
  /\ seen' = [seen EXCEPT ![p] = {}]
  /\ UNCHANGED <<store, quiet, deleted, admit>>

\* --------------------------------------------- GET /transactions
\* .sort({ date: -1 }): newest first.
RECURSIVE SortByDateDesc(_)
SortByDateDesc(coll) ==
  IF coll = {}
  THEN <<>>
  ELSE LET newest == CHOOSE d \in coll : \A e \in coll : e.date <= d.date
       IN <<newest>> \o SortByDateDesc(coll \ {newest})

\* Line 280: issue the query.
TransactionsStart(p) ==
  /\ Free(p)
  /\ ReaderIssued(p)
  /\ req' = [req EXCEPT ![p] = Request("GET /transactions", Undef, 0, "")]
  /\ Await(p, "t_find")
  /\ UNCHANGED <<store, loc, seen>>

\* Lines 280-281: the query reads the collection; the handler responds.
TransactionsFind(p) ==
  /\ pc[p] = "t_find"
  /\ Respond(p, DataResponse(200, SortByDateDesc(txs)))
  /\ UNCHANGED <<store, quiet, deleted, admit, seen>>

\* ------------------------------------------ DELETE /transactions
\* Line 290: issue deleteMany({}).
ClearStart(p) ==
  /\ Free(p)
  /\ req' = [req EXCEPT ![p] = Request("DELETE /transactions", Undef, 0, "")]
  /\ Await(p, "c_del")
  /\ UNCHANGED <<store, loc, hist>>

\* A deposit or withdrawal request is in flight.
WriterInFlight == \E q \in Procs : pc[q] \in {"d_save", "w_agg", "w_save"}

\* Mutant of ClearDelete: deleteMany({ type: "deposit" }) leaves the
\* withdrawals in place.
ClearDeleteDeposits(p) ==
  /\ pc[p] = "c_del"
  /\ txs' = {d \in txs : d.type # "deposit"}
  /\ Respond(p, MessageResponse("All transactions cleared.", Undef))
  /\ quiet' = IF WriterInFlight THEN "clear" ELSE "clean"
  /\ UNCHANGED <<users, clock, uclock, deleted, admit>>
  /\ Observed

\* Lines 290-291: every document is removed; the handler responds.
ClearDelete(p) ==
  /\ pc[p] = "c_del"
  /\ txs' = {}
  /\ Respond(p, MessageResponse("All transactions cleared.", Undef))
  /\ quiet' = IF WriterInFlight THEN "clear" ELSE "clean"
  /\ UNCHANGED <<users, clock, uclock, deleted, admit>>
  /\ Observed

\* ------------------------------------------------------ Users API
\* req.body.name: a string, or absent.
Names == {"ann", "bob"}
MissingName == ""
\* req.params.id: well-formed ids, of documents that exist, existed or never did.
UserIds == 1..(MaxUsers + 1)

\* User.findById(id): the document or null (here: the empty set).
FindById(coll, id) == {u \in coll : u.id = id}

\* Line 103: issue User.find().
UsersStart(p) ==
  /\ Free(p)
  /\ req' = [req EXCEPT ![p] = Request("GET /users", Undef, 0, "")]
  /\ Await(p, "u_find")
  /\ UNCHANGED <<store, loc, hist>>

\* Lines 103-104.
UsersFind(p) ==
  /\ pc[p] = "u_find"
  /\ Respond(p, DataResponse(200, users))
  /\ UNCHANGED <<store, quiet, deleted, admit, seen>>

\* Line 114: issue User.findById(req.params.id).
UserGetStart(p, id) ==
  /\ Free(p)
  /\ UserIssued(p, id)
  /\ req' = [req EXCEPT ![p] = Request("GET /users/:id", Undef, id, "")]
  /\ Await(p, "u_get")
  /\ UNCHANGED <<store, loc>>

\* Lines 114-116.
UserGet(p) ==
  /\ pc[p] = "u_get"
  /\ LET user == FindById(users, req[p].id)
     IN Respond(p, IF user = {}
                   THEN ErrorResponse(404, "User not found")
                   ELSE DataResponse(200, user))
  /\ UNCHANGED <<store, quiet, deleted, admit, seen>>

\* Lines 127-128: construct the document, issue save().
UserCreateStart(p, name) ==
  /\ Free(p)
  /\ uclock < MaxUsers
  /\ uclock' = uclock + 1
  /\ req' = [req EXCEPT ![p] = Request("POST /users", Undef, uclock + 1, name)]
  /\ Await(p, "u_save")
  /\ UNCHANGED <<txs, users, clock, loc, hist>>

\* Lines 128-129: save() validates the document (name is required) and
\* inserts it; a validation error rejects the promise.
UserSave(p) ==
  /\ pc[p] = "u_save"
  /\ IF req[p].name = MissingName
     THEN /\ Respond(p, Fault)
          /\ UNCHANGED users
     ELSE LET user == [id |-> req[p].id, name |-> req[p].name]
          IN /\ users' = users \cup {user}
             /\ Respond(p, DataResponse(201, {user}))
  /\ UNCHANGED <<txs, clock, uclock, quiet, deleted, admit, seen>>

\* Lines 139-143: issue User.findByIdAndUpdate(id, { name }, { new: true }).
UserPutStart(p, id, name) ==
  /\ Free(p)
  /\ UserIssued(p, id)
  /\ req' = [req EXCEPT ![p] = Request("PUT /users/:id", Undef, id, name)]
  /\ Await(p, "u_put")
  /\ UNCHANGED <<store, loc>>

\* Mutant of UserPut: the update is an upsert, so an absent id is created.
UserPutUpsert(p) ==
  /\ pc[p] = "u_put"
  /\ LET user == FindById(users, req[p].id)
         updated == {[id |-> req[p].id, name |-> req[p].name]}
     IN /\ users' = (users \ user) \cup updated
        /\ Respond(p, DataResponse(200, updated))
  /\ UNCHANGED <<txs, clock, uclock, quiet, deleted, admit, seen>>

\* Lines 139-145.
UserPut(p) ==
  /\ pc[p] = "u_put"
  /\ LET user == FindById(users, req[p].id)
         updated == {[u EXCEPT !.name = req[p].name] : u \in user}
     IN /\ users' = (users \ user) \cup updated
        /\ Respond(p, IF user = {}
                      THEN ErrorResponse(404, "User not found")
                      ELSE DataResponse(200, updated))
  /\ UNCHANGED <<txs, clock, uclock, quiet, deleted, admit, seen>>

\* Line 155: issue User.findByIdAndDelete(req.params.id).
UserDeleteStart(p, id) ==
  /\ Free(p)
  /\ UserIssued(p, id)
  /\ req' = [req EXCEPT ![p] = Request("DELETE /users/:id", Undef, id, "")]
  /\ Await(p, "u_del")
  /\ UNCHANGED <<store, loc>>

\* Lines 155-157.
UserDelete(p) ==
  /\ pc[p] = "u_del"
  /\ LET user == FindById(users, req[p].id)
     IN /\ users' = users \ user
        /\ Respond(p, IF user = {}
                      THEN ErrorResponse(404, "User not found")
                      ELSE MessageResponse("User deleted", Undef))
        /\ deleted' = deleted \cup {u.id : u \in user}
  /\ UNCHANGED <<txs, clock, uclock, quiet, admit, seen>>

\* ------------------------------------------------ specifications
Init ==
  /\ txs = {}
  /\ users = {}
  /\ clock = 0
  /\ uclock = 0
  /\ pc = [p \in Procs |-> "idle"]
  /\ req = [p \in Procs |-> NoReq]
  /\ loc = [p \in Procs |-> NoLoc]
  /\ done = NoDone
  /\ quiet = "no"
  /\ sub = [p \in Procs |-> "no"]
  /\ deleted = {}
  /\ admit = {}
  /\ seen = [p \in Procs |-> {}]

\* The Bank API (section 8 of the server file).
BankNext ==
  \E p \in Procs :
    \/ \E amount \in BodyAmounts : DepositStart(p, amount)
    \/ DepositSave(p)
    \/ \E amount \in BodyAmounts : WithdrawStart(p, amount)
    \/ WithdrawRead(p)
    \/ WithdrawSave(p)
    \/ BalanceStart(p)
    \/ BalanceDeposits(p)
    \/ BalanceWithdrawals(p)
    \/ TransactionsStart(p)
    \/ TransactionsFind(p)
    \/ ClearStart(p)
    \/ ClearDelete(p)

\* The Users API (section 7 of the server file).
UsersNext ==
  \E p \in Procs :
    \/ UsersStart(p)
    \/ UsersFind(p)
    \/ \E id \in UserIds : UserGetStart(p, id)
    \/ UserGet(p)
    \/ \E name \in Names \cup {MissingName} : UserCreateStart(p, name)
    \/ UserSave(p)
    \/ \E id \in UserIds, name \in Names : UserPutStart(p, id, name)
    \/ UserPut(p)
    \/ \E id \in UserIds : UserDeleteStart(p, id)
    \/ UserDelete(p)

Next == BankNext \/ UsersNext

Spec == Init /\ [][Next]_vars

\* The Bank API alone: the users collection is never touched.
SpecBank == Init /\ [][BankNext]_vars

\* The Bank API with requests handled one at a time: a request is taken only
\* when no other is in flight.
Alone(p) == \A q \in Procs \ {p} : pc[q] = "idle"
SeqNext ==
  \E p \in Procs :
    \/ \E amount \in BodyAmounts : Alone(p) /\ DepositStart(p, amount)
    \/ Alone(p) /\ DepositSave(p)
    \/ \E amount \in BodyAmounts : Alone(p) /\ WithdrawStart(p, amount)
    \/ Alone(p) /\ WithdrawRead(p)
    \/ Alone(p) /\ WithdrawSave(p)
    \/ Alone(p) /\ BalanceStart(p)
    \/ Alone(p) /\ BalanceDeposits(p)
    \/ Alone(p) /\ BalanceWithdrawals(p)
    \/ Alone(p) /\ TransactionsStart(p)
    \/ Alone(p) /\ TransactionsFind(p)
    \/ Alone(p) /\ ClearStart(p)
    \/ Alone(p) /\ ClearDelete(p)
SpecSeq == Init /\ [][SeqNext]_vars

\* The Users API alone: the transactions collection is never touched.
SpecUsers == Init /\ [][UsersNext]_vars

\* ---------------------------------------------------------- claims
\* A positive finite number: what the specification admits as an amount.
PositiveFinite(x) == IsFinite(x) /\ x.v > 0

\* C1: with requests handled one at a time, every GET /balance responds 200
\* with exactly the sum of the persisted deposit amounts minus the sum of the
\* persisted withdrawal amounts (0 for an empty collection).
C1_BalanceIsLedger ==
  [][done'.route = "GET /balance"
       => done'.response = DataResponse(200, Ledger(txs'))]_vars

\* C2 as stated: whenever a POST /withdraw is decided (at validation or at
\* the balance read) with a numeric amount greater than the balance of the
\* store at that moment, the response is 400 "Insufficient funds" and no
\* transaction is persisted.
C2_Original ==
  [][\A p \in Procs :
       /\ ( /\ done'.route = "POST /withdraw"
            /\ done'.slot = p
            /\ pc[p] \in {"idle", "w_agg"}
            /\ IsNumber(done'.amount)
            /\ Gt(done'.amount, Ledger(txs)) )
            => /\ done'.response = ErrorResponse(400, "Insufficient funds")
               /\ txs' = txs
       /\ (pc[p] = "w_agg" /\ Gt(req[p].amount, Ledger(txs)))
            => pc'[p] # "w_save"]_vars

\* C2 as amended: whenever the balance read of a POST /withdraw (whose amount
\* has passed validation, so is a positive number) finds the amount greater
\* than the balance, the response is 400 "Insufficient funds", the handler
\* ends there and the collection is unchanged.
C2_InsufficientFundsRejected ==
  [][\A p \in Procs :
       (pc[p] = "w_agg" /\ pc'[p] # "w_agg" /\ Gt(req[p].amount, Ledger(txs)))
         => /\ done' = Exchange(p, req[p], "no", ErrorResponse(400, "Insufficient funds"))
            /\ pc'[p] = "idle"
            /\ clock' = clock
            /\ txs' = txs]_vars

\* C2 witness: a withdrawal of a finite amount greater than the balance of a
\* non-empty store has just been rejected with "Insufficient funds".
C2_Witness ==
  /\ done.route = "POST /withdraw"
  /\ done.response = ErrorResponse(400, "Insufficient funds")
  /\ IsFinite(done.amount)
  /\ Gt(done.amount, Ledger(txs))
  /\ txs # {}

\* C3: with requests handled one at a time, a POST /withdraw of a positive
\* amount a that is at most the balance b is admitted, and its insert answers
\* 200, adds exactly one withdrawal document of amount a and leaves the
\* balance b - a, which is 0 when a = b.
C3_WithdrawDecreasesBalance ==
  [][\A p \in Procs :
       LET a == req[p].amount
           b == Ledger(txs)
       IN /\ (pc[p] = "w_agg" /\ pc'[p] # "w_agg" /\ Le(a, b))
               => pc'[p] = "w_save"
          /\ (pc[p] = "w_save" /\ pc'[p] = "idle")
               => /\ done'.response = MessageResponse("Withdrew", a)
                  /\ \E d \in txs' \ txs :
                       /\ txs' = txs \cup {d}
                       /\ d.type = "withdrawal"
                       /\ d.amount = a
                  /\ Ledger(txs') = Sub(b, a)
                  /\ (a = b => Ledger(txs') = Num(0))]_vars

\* C4: every persisted Transaction has amount > 0 and type deposit or
\* withdrawal, in every reachable state of the concurrent Bank API.
C4_PersistedAmountsPositive ==
  \A d \in txs : Gt(d.amount, Num(0)) /\ d.type \in {"deposit", "withdrawal"}

\* C4 witness: the collection holds a deposit and a withdrawal.
C4_Witness ==
  /\ \E d \in txs : d.type = "deposit"
  /\ \E d \in txs : d.type = "withdrawal"

\* C5: every POST /deposit and POST /withdraw whose amount is not a positive
\* finite number is answered 400 "Invalid deposit amount" / "Invalid
\* withdrawal amount" at once, whatever the balance, and constructs and
\* persists no Transaction.
C5_InvalidAmountRejected ==
  [][\A p \in Procs : \A a \in BodyAmounts :
       ~PositiveFinite(a) =>
         /\ DepositStart(p, a) =>
              /\ done'.response = ErrorResponse(400, "Invalid deposit amount")
              /\ pc'[p] = "idle" /\ clock' = clock /\ txs' = txs
         /\ WithdrawStart(p, a) =>
              /\ done'.response = ErrorResponse(400, "Invalid withdrawal amount")
              /\ pc'[p] = "idle" /\ clock' = clock /\ txs' = txs]_vars

\* C6 as stated: a GET /transactions or GET /balance issued after a clear has
\* completed, with no deposit or withdrawal request issued since that clear,
\* answers the empty sequence, respectively 0; and every clear answers 200
\* and leaves the collection empty.
C6_Original ==
  [][/\ (done'.route = "GET /transactions" /\ done'.after \in {"clear", "clean"})
          => done'.response = DataResponse(200, <<>>)
     /\ (done'.route = "GET /balance" /\ done'.after \in {"clear", "clean"})
          => done'.response = DataResponse(200, Num(0))
     /\ done'.route = "DELETE /transactions"
          => /\ done'.response = MessageResponse("All transactions cleared.", Undef)
             /\ txs' = {}]_vars

\* C6 as amended: the same, provided also that no deposit or withdrawal
\* request was still in flight when the clear completed.
C6_EmptyAfterClear ==
  [][/\ (done'.route = "GET /transactions" /\ done'.after = "clean")
          => done'.response = DataResponse(200, <<>>)
     /\ (done'.route = "GET /balance" /\ done'.after = "clean")
          => done'.response = DataResponse(200, Num(0))
     /\ done'.route = "DELETE /transactions"
          => /\ done'.response = MessageResponse("All transactions cleared.", Undef)
             /\ txs' = {}]_vars

\* C6 witness: transactions were persisted, a clear completed with no writer
\* in flight, a GET /balance issued after it has just answered 0 and a
\* GET /transactions issued after it is about to read the collection.
C6_Witness ==
  /\ clock > 0
  /\ quiet = "clean"
  /\ done.route = "GET /balance"
  /\ done.after = "clean"
  /\ done.response = DataResponse(200, Num(0))
  /\ \E q \in Procs : pc[q] = "t_find" /\ sub[q] = "clean"

C8_AdmittedWithdrawalPersists ==
  [][\A p \in Procs :
       (pc[p] = "w_save" /\ pc'[p] # "w_save")
         => /\ pc'[p] = "idle"
            /\ done' = Exchange(p, req[p], "no", MessageResponse("Withdrew", req[p].amount))
            /\ loc[p].doc.type = "withdrawal"
            /\ loc[p].doc.amount = req[p].amount
            /\ loc[p].doc \notin txs
            /\ txs' = txs \cup {loc[p].doc}]_vars

\* C8 witness: two POST /withdraw requests read the same balance B, each
\* passed amount <= B, both persisted, and the balance of the store is
\* negative.
C8_Overdraft ==
  \E d, e \in txs : \E m, n \in admit :
    /\ d # e
    /\ d.type = "withdrawal" /\ e.type = "withdrawal"
    /\ m.id = d.id /\ n.id = e.id
    /\ IsFinite(m.balance)
    /\ m.balance = n.balance
    /\ Le(d.amount, m.balance) /\ Le(e.amount, n.balance)
    /\ Gt(Num(0), Ledger(txs))

\* C9: over every reachable collection, the balance POST /withdraw computes
\* for its check equals the balance GET /balance computes.
C9_SameBalance ==
  FirstBalance(AggregateBalance(txs))
    = Sub(FirstTotal(AggregateTotal(txs, "deposit")),
          FirstTotal(AggregateTotal(txs, "withdrawal")))

\* C10: with requests handled one at a time, the balance of the store
\* (deposits minus withdrawals) is >= 0 in every reachable state.
C10_BalanceNonNegative == Le(Num(0), Ledger(txs))

\* C11: the balance a GET /balance returns is the balance the store had
\* (deposits minus withdrawals, as written in the JSON response) at some
\* instant between the start and the end of that request, under any
\* interleaving with deposit, withdraw and clear requests.
C11_BalanceWasTrue ==
  [][\A p \in Procs :
       (done'.route = "GET /balance" /\ done'.slot = p)
         => \E b \in seen[p] : done'.response = DataResponse(200, JsonNumber(b))]_vars

====
